---- MODULE Spec2Model ----
(***************************************************************************)
(* Model of the Flow adapter (src/Fbeta.js): a client-side wrapper around  *)
(* a socket library.  Strings are sequences of one-character strings, an   *)
(* optional string (null or a string) is a sequence of length 0 or 1, an   *)
(* option object is a function from its own keys to their values, and a    *)
(* handle returned by io() is a positive number (the n-th call of io()).   *)
(***************************************************************************)
EXTENDS Naturals, Sequences, FiniteSets

\* ------------------------------------------------------------------ bounds
\* Calls of io() explored in one behaviour.
MaxHandles == 3
\* Callbacks held by the registry (all three sequences together).
MaxListeners == 3
\* Calls of io() explored on the registry side.
MaxRegistryHandles == 2
\* Listeners attached to handles by receive().
MaxAttached == 2

\* --------------------------------------------------------------- constants
\* this.socket = null
NoSocket == 0
\* setTimeout(..., 3000)
ReconnectDelay == 3000
\* Granularity of the clock that drives the timers.
TickMs == ReconnectDelay \div 3

\* ------------------------------------------------------------------ values
\* null / undefined where a string is optional.
None == <<>>
Some(s) == <<s>>
\* JS truthiness of an optional string: null and '' are falsy.
Truthy(t) == t # None /\ t[1] # <<>>

Range(s) == {s[i] : i \in 1..Len(s)}

\* Names that every object inherits from Object.prototype.
ObjectProtoNames == {"toString", "constructor"}
\* The three own keys the constructor gives this.eventListeners.
LifecycleNames == {"connect", "disconnect", "error"}

\* ------------------------------------------------------------------ inputs
BaseURLs == {<<"h">>, <<"h", "?", "x">>}
Tokens == {None, Some(<<>>), Some(<<"a">>), Some(<<"b">>)}
Keys == {"a", "b"}
Vals == {1, 2}
OptionObjects == UNION {[D -> Vals] : D \in SUBSET Keys}
InitOptions == {o \in OptionObjects : DOMAIN o \subseteq {"a"}}
\* Arguments of setOptions.
OptionArgs == {o \in OptionObjects : \A k \in DOMAIN o : k = "b" => o[k] = 2}
Callbacks == {"f", "g"}
EventNames == LifecycleNames \cup {"message"} \cup ObjectProtoNames
Errors == {"E1", "E2"}
MessageNames == {"m1", "m2"}
Payloads == {1, 2}

VARIABLES
    url,            \* this.url
    options,        \* this.options
    socket,         \* this.socket: NoSocket or the current handle
    eventListeners, \* this.eventListeners: own key -> sequence of callbacks
    token,          \* this.token: None or Some(string)
    nOpened,        \* library: number of handles io() has returned
    closed,         \* library: handles on which disconnect() was called
    attached,       \* library: listeners receive() attached, in order: handle, name, callback
    timers,         \* event loop: pending setTimeout callbacks, ms elapsed of each
    fired,          \* event loop: number of setTimeout callbacks that have run
    lastOp,         \* the operation of the last step and its inputs
    calls,          \* library calls made by the last step, in order
    invoked,        \* callbacks invoked by the last step, in order
    thrown          \* what the last step raised to its caller

vars == <<url, options, socket, eventListeners, token, nOpened, closed,
          attached, timers, fired, lastOp, calls, invoked, thrown>>

\* ------------------------------------------------------------ pure helpers
Call(fn, h, a, b) == [fn |-> fn, h |-> h, a |-> a, b |-> b]

Op(name, ev, cb, tok, opt, h, val) ==
    [name |-> name, ev |-> ev, cb |-> cb, tok |-> tok, opt |-> opt,
     h |-> h, val |-> val]

TokenParam == <<"t", "o", "k", "e", "n", "=">>

\* url.includes('?')
Includes(u, c) == \E i \in 1..Len(u) : u[i] = c

appendTokenAlwaysQuestion(u, t) == u \o <<"?">> \o TokenParam \o t

appendTokenToURL(u, t) ==
    LET separator == IF Includes(u, "?") THEN "&" ELSE "?"
    IN  u \o <<separator>> \o TokenParam \o t

mergeOldWins(old, new) ==
    [k \in DOMAIN old \cup DOMAIN new |->
        IF k \in DOMAIN old THEN old[k] ELSE new[k]]

\* { ...this.options, ...options }
mergeOptions(old, new) ==
    [k \in DOMAIN old \cup DOMAIN new |->
        IF k \in DOMAIN new THEN new[k] ELSE old[k]]

RECURSIVE removeFirst(_, _)
removeFirst(s, cb) ==
    IF s = <<>> THEN <<>>
    ELSE IF Head(s) = cb THEN Tail(s)
    ELSE <<Head(s)>> \o removeFirst(Tail(s), cb)

\* array.filter(x => x !== cb)
RECURSIVE filterOut(_, _)
filterOut(s, cb) ==
    IF s = <<>> THEN <<>>
    ELSE IF Head(s) = cb THEN filterOut(Tail(s), cb)
    ELSE <<Head(s)>> \o filterOut(Tail(s), cb)

\* this.eventListeners[event]: an own key gives its array, an inherited name
\* gives a function of Object.prototype, anything else gives undefined.
Lookup(el, event) ==
    IF event \in DOMAIN el THEN "array"
    ELSE IF event \in ObjectProtoNames THEN "function"
    ELSE "undefined"

triggerEventReversed(el, event, args) ==
    IF Lookup(el, event) = "array"
    THEN [i \in 1..Len(el[event]) |->
            [ev |-> event, cb |-> el[event][Len(el[event]) + 1 - i],
             args |-> args]]
    ELSE <<>>

\* The callback invocations of triggerEvent(event, ...args), in order.
\* Callbacks are opaque: they return normally and do not call the adapter.
triggerEvent(el, event, args) ==
    IF Lookup(el, event) = "array"
    THEN [i \in 1..Len(el[event]) |->
            [ev |-> event, cb |-> el[event][i], args |-> args]]
    ELSE <<>>

\* Object.keys(this.eventListeners).forEach(event => ... = [])
clearEventListeners(el) == [k \in DOMAIN el |-> <<>>]

Occurrences(el, event, cb) ==
    IF Lookup(el, event) = "array"
    THEN Cardinality({i \in 1..Len(el[event]) : el[event][i] = cb})
    ELSE 0

NumListeners(el) ==
    LET RECURSIVE Sum(_)
        Sum(S) == IF S = {} THEN 0
                  ELSE LET k == CHOOSE x \in S : TRUE
                       IN  Len(el[k]) + Sum(S \ {k})
    IN  Sum(DOMAIN el)

\* ------------------------------------------------- the adapter's methods
\* Each method is a function from the adapter's state (with the library's and
\* the event loop's) at its call to that state at its return.
This ==
    [url |-> url, options |-> options, socket |-> socket,
     eventListeners |-> eventListeners, token |-> token,
     nOpened |-> nOpened, closed |-> closed, attached |-> attached,
     timers |-> timers,
     calls |-> <<>>, invoked |-> <<>>, thrown |-> "none"]

ioReattach(s) ==
    LET h == s.nOpened + 1
        old == SelectSeq(s.attached, LAMBDA r : r.h = s.socket)
    IN  [s EXCEPT !.socket = h, !.nOpened = h,
                  !.attached = @ \o [i \in 1..Len(old) |-> [old[i] EXCEPT !.h = h]],
                  !.calls = Append(@, Call("io", h, s.url, s.options))]

\* io(this.url, this.options): the library returns a new handle.  The four
\* socket.on(...) lines wire every handle ever returned to the handlers below.
io(s) ==
    LET h == s.nOpened + 1
    IN  [s EXCEPT !.socket = h, !.nOpened = h,
                  !.calls = Append(@, Call("io", h, s.url, s.options))]

connectStoresAlways(s, tok) ==
    io([s EXCEPT !.token = tok,
                 !.url = IF Truthy(tok) THEN appendTokenToURL(s.url, tok[1])
                         ELSE s.url])

connect(s, tok) ==
    IF Truthy(tok)
    THEN io([s EXCEPT !.token = tok,
                      !.url = appendTokenToURL(s.url, tok[1])])
    ELSE io(s)

\* this.socket.disconnect()
socketDisconnect(s) ==
    [s EXCEPT !.closed = @ \cup {s.socket},
              !.calls = Append(@, Call("disconnect", s.socket, <<>>, <<>>))]

disconnectCancelsTimers(s) ==
    IF s.socket # NoSocket
    THEN [socketDisconnect(s) EXCEPT
            !.eventListeners = clearEventListeners(s.eventListeners),
            !.timers = <<>>]
    ELSE s

disconnectKeepListeners(s) ==
    IF s.socket # NoSocket THEN socketDisconnect(s) ELSE s

disconnect(s) ==
    IF s.socket # NoSocket
    THEN [socketDisconnect(s) EXCEPT
            !.eventListeners = clearEventListeners(s.eventListeners)]
    ELSE s

sendUnguarded(s, event, data) ==
    [s EXCEPT !.calls = Append(@, Call("emit", s.socket, event, data))]

send(s, event, data) ==
    IF s.socket # NoSocket
    THEN [s EXCEPT !.calls = Append(@, Call("emit", s.socket, event, data))]
    ELSE s

\* this.socket.on(event, callback): the library adds a listener to that handle.
receive(s, event, callback) ==
    IF s.socket # NoSocket
    THEN [s EXCEPT
            !.attached = Append(@, [h |-> s.socket, ev |-> event, cb |-> callback]),
            !.calls = Append(@, Call("on", s.socket, event, callback))]
    ELSE s

\* The library delivers a message named event on handle h: it calls the
\* listeners attached to h under that name, in the order they were attached.
RECURSIVE deliver(_, _, _, _)
deliver(att, h, event, data) ==
    IF att = <<>> THEN <<>>
    ELSE (IF Head(att).h = h /\ Head(att).ev = event
          THEN <<[ev |-> event, cb |-> Head(att).cb, args |-> <<data>>]>>
          ELSE <<>>) \o deliver(Tail(att), h, event, data)

\* A truthy value that is no array has no push and no filter: calling it
\* raises a TypeError before anything is assigned.
on(s, event, callback) ==
    CASE Lookup(s.eventListeners, event) = "array" ->
            [s EXCEPT !.eventListeners[event] = Append(@, callback)]
      [] Lookup(s.eventListeners, event) = "function" ->
            [s EXCEPT !.thrown = "TypeError"]
      [] OTHER -> s

off(s, event, callback) ==
    CASE Lookup(s.eventListeners, event) = "array" ->
            [s EXCEPT !.eventListeners[event] = filterOut(@, callback)]
      [] Lookup(s.eventListeners, event) = "function" ->
            [s EXCEPT !.thrown = "TypeError"]
      [] OTHER -> s

handleConnect(s) ==
    [s EXCEPT !.invoked = @ \o triggerEvent(s.eventListeners, "connect", <<>>)]

handleDisconnect(s) ==
    [s EXCEPT !.invoked = @ \o triggerEvent(s.eventListeners, "disconnect", <<>>)]

handleError(s, error) ==
    [s EXCEPT !.invoked = @ \o triggerEvent(s.eventListeners, "error", <<error>>)]

handleConnectErrorAsError(s, error) ==
    [s EXCEPT !.timers = Append(@, 0),
              !.invoked = @ \o triggerEvent(s.eventListeners, "error", <<error>>)]

\* setTimeout(() => this.connect(this.token), 3000): one more pending timer.
handleConnectError(s, error) ==
    [s EXCEPT !.timers = Append(@, 0)]

\* The timer's callback: this.token is read when the callback runs.
reconnect(s) == connect(s, s.token)

DueAtOnce(elapsed) == elapsed >= 0

\* A timer may run once its delay has elapsed.
Due(elapsed) == elapsed >= ReconnectDelay

setOptionsNoDisconnect(s, newOptions) ==
    LET s1 == [s EXCEPT !.options = mergeOptions(s.options, newOptions)]
    IN  IF s1.socket # NoSocket
        THEN connect(s1, s1.token)
        ELSE s1

setOptions(s, newOptions) ==
    LET s1 == [s EXCEPT !.options = mergeOptions(s.options, newOptions)]
    IN  IF s1.socket # NoSocket
        THEN connect(socketDisconnect(s1), s1.token)
        ELSE s1

\* ---------------------------------------------------------------- actions
Commit(s, op) ==
    /\ url' = s.url
    /\ options' = s.options
    /\ socket' = s.socket
    /\ eventListeners' = s.eventListeners
    /\ token' = s.token
    /\ nOpened' = s.nOpened
    /\ closed' = s.closed
    /\ attached' = s.attached
    /\ timers' = s.timers
    /\ calls' = s.calls
    /\ invoked' = s.invoked
    /\ thrown' = s.thrown
    /\ lastOp' = op

\* A handle is kept in reserve for every pending timer, so that the bound on
\* handles never stops a timer from running.
CanOpen == nOpened + Len(timers) < MaxHandles

Init ==
    /\ url \in BaseURLs
    /\ options \in InitOptions
    /\ socket = NoSocket
    /\ eventListeners = [k \in LifecycleNames |-> <<>>]
    /\ token = None
    /\ nOpened = 0
    /\ closed = {}
    /\ attached = <<>>
    /\ timers = <<>>
    /\ fired = 0
    /\ lastOp = Op("new", "", "", None, <<>>, 0, 0)
    /\ calls = <<>>
    /\ invoked = <<>>
    /\ thrown = "none"

Connect(tok) ==
    /\ CanOpen
    /\ Commit(connect(This, tok), Op("connect", "", "", tok, <<>>, 0, 0))
    /\ UNCHANGED fired

\* lastOp.val: how many callbacks the registry held at the call.
Disconnect ==
    /\ Commit(disconnect(This),
              Op("disconnect", "", "", None, <<>>, 0, NumListeners(eventListeners)))
    /\ UNCHANGED fired

Send(event, data) ==
    /\ Commit(send(This, event, data), Op("send", event, "", None, <<>>, 0, data))
    /\ UNCHANGED fired

Receive(event, callback) ==
    /\ socket # NoSocket => Len(attached) < MaxAttached
    /\ Commit(receive(This, event, callback),
              Op("receive", event, callback, None, <<>>, 0, 0))
    /\ UNCHANGED fired

\* A message from the server arrives on a handle.
Message(h, event, data) ==
    /\ Commit([This EXCEPT !.invoked = deliver(attached, h, event, data)],
              Op("message", event, "", None, <<>>, h, data))
    /\ UNCHANGED fired

On(event, callback) ==
    /\ Lookup(eventListeners, event) = "array" => NumListeners(eventListeners) < MaxListeners
    /\ Commit(on(This, event, callback), Op("on", event, callback, None, <<>>, 0, 0))
    /\ UNCHANGED fired

\* lastOp.val: how often the callback stood in the event's sequence at the call.
Off(event, callback) ==
    /\ Commit(off(This, event, callback),
              Op("off", event, callback, None, <<>>, 0,
                 Occurrences(eventListeners, event, callback)))
    /\ UNCHANGED fired

SetOptions(newOptions) ==
    /\ socket # NoSocket => CanOpen
    /\ Commit(setOptions(This, newOptions),
              Op("setOptions", "", "", None, newOptions, 0, 0))
    /\ UNCHANGED fired

\* The library's notifications, from any handle the handlers are wired to.
NotifyConnect(h) ==
    /\ Commit(handleConnect(This), Op("handleConnect", "connect", "", None, <<>>, h, 0))
    /\ UNCHANGED fired

NotifyDisconnect(h) ==
    /\ Commit(handleDisconnect(This),
              Op("handleDisconnect", "disconnect", "", None, <<>>, h, 0))
    /\ UNCHANGED fired

NotifyError(h, error) ==
    /\ Commit(handleError(This, error),
              Op("handleError", "error", "", None, <<>>, h, error))
    /\ UNCHANGED fired

NotifyConnectError(h, error) ==
    /\ CanOpen
    /\ Commit(handleConnectError(This, error),
              Op("handleConnectError", "connect_error", "", None, <<>>, h, error))
    /\ UNCHANGED fired

\* Time passes: every pending timer ages (an age past the delay is kept at it).
Tick ==
    /\ \E i \in 1..Len(timers) : ~Due(timers[i])
    /\ timers' = [i \in 1..Len(timers) |->
                    IF timers[i] + TickMs >= ReconnectDelay THEN ReconnectDelay
                    ELSE timers[i] + TickMs]
    /\ lastOp' = Op("tick", "", "", None, <<>>, 0, 0)
    /\ calls' = <<>>
    /\ invoked' = <<>>
    /\ thrown' = "none"
    /\ UNCHANGED <<url, options, socket, eventListeners, token, nOpened, closed,
                   attached, fired>>

\* The oldest pending timer runs (timers of equal delay run in the order set).
TimerFire ==
    /\ timers # <<>>
    /\ Due(Head(timers))
    /\ Commit(reconnect([This EXCEPT !.timers = Tail(timers)]),
              Op("timer", "", "", token, <<>>, 0, Head(timers)))
    /\ fired' = fired + 1

\* The connection side: everything that reads or writes the URL, the options,
\* the token, the handle and the timers.  The registry stays as constructed.
Next ==
    \/ \E tok \in Tokens : Connect(tok)
    \/ Disconnect
    \/ \E e \in MessageNames, d \in Payloads : Send(e, d)
    \/ \E o \in OptionArgs : SetOptions(o)
    \/ \E h \in 1..nOpened, e \in Errors : NotifyConnectError(h, e)
    \/ Tick
    \/ TimerFire

Spec == Init /\ [][Next]_vars

\* The reconnect side: what sets the token, schedules a timer or runs one.
ReconnectNext ==
    \/ \E tok \in Tokens : Connect(tok)
    \/ Disconnect
    \/ SetOptions([k \in {"b"} |-> 2])
    \/ \E h \in 1..nOpened, e \in Errors : NotifyConnectError(h, e)
    \/ Tick
    \/ TimerFire

ReconnectInit == Init /\ url = <<"h">> /\ options = <<>>

\* The event loop runs a due timer, and time does not stop.
FairSpec ==
    ReconnectInit /\ [][ReconnectNext]_vars /\ WF_vars(Tick) /\ WF_vars(TimerFire)

\* The registry side: on, off, the notifications that read the registry and
\* disconnect, which clears it; connect without a token supplies the handles.
RegistryCanOpen == nOpened + Len(timers) < MaxRegistryHandles

RegistryNext ==
    \/ RegistryCanOpen /\ Connect(None)
    \/ Disconnect
    \/ \E e \in EventNames, cb \in Callbacks : On(e, cb)
    \/ \E e \in EventNames, cb \in Callbacks : Off(e, cb)
    \/ \E h \in 1..nOpened : NotifyConnect(h)
    \/ \E h \in 1..nOpened : NotifyDisconnect(h)
    \/ \E h \in 1..nOpened, e \in Errors : NotifyError(h, e)
    \/ RegistryCanOpen /\ \E h \in 1..nOpened, e \in Errors : NotifyConnectError(h, e)

\* new Flow(): the registry side does not depend on the URL and the options.
RegistryInit == Init /\ url = <<"h">> /\ options = <<>>

RegistrySpec == RegistryInit /\ [][RegistryNext]_vars

\* The whole interface with few inputs: every method, every notification,
\* the messages and the timer.
ApiTokens == {None, Some(<<>>), Some(<<"a">>)}

ApiCanRegister == NumListeners(eventListeners) < MaxAttached

ApiNext ==
    \/ RegistryCanOpen /\ \E tok \in ApiTokens : Connect(tok)
    \/ Disconnect
    \/ Send("m1", 1)
    \/ Receive("m1", "f")
    \/ ApiCanRegister /\ \E e \in {"connect", "error"} : On(e, "f")
    \/ \E e \in {"connect", "error"} : Off(e, "f")
    \/ (socket # NoSocket => RegistryCanOpen) /\ SetOptions([k \in {"b"} |-> 2])
    \/ \E h \in 1..nOpened : NotifyConnect(h)
    \/ \E h \in 1..nOpened : NotifyDisconnect(h)
    \/ \E h \in 1..nOpened : NotifyError(h, "E1")
    \/ RegistryCanOpen /\ \E h \in 1..nOpened : NotifyConnectError(h, "E1")
    \/ \E h \in 1..nOpened : Message(h, "m1", 1)
    \/ Tick
    \/ TimerFire

ApiSpec == RegistryInit /\ [][ApiNext]_vars

\* ------------------------------------------------------------------ claims
\* Handles that were opened and on which disconnect() was not yet called.
Live == (1..nOpened) \ closed

\* C1: in every reachable state the adapter has at most one live underlying
\* connection handle.
C1_AtMostOneLiveHandle == Cardinality(Live) <= 1

\* C2: a send() that follows disconnect() on an adapter that has a handle
\* makes no emit call on the library, whatever the event name and payload.
C2_NoEmitAfterDisconnect ==
    [][(lastOp.name = "disconnect" /\ socket # NoSocket /\ lastOp'.name = "send")
          => calls' = <<>>]_vars

\* The arguments a notification of the given handler passes to the callbacks.
ExpectedArgs(op) == IF op.name = "handleError" THEN <<op.val>> ELSE <<>>

RegistryNotifications == {"handleConnect", "handleDisconnect", "handleError"}

IsOldWithout(new, old, cb) ==
    LET kept == {i \in 1..Len(old) : old[i] # cb}
    IN  /\ Len(new) = Cardinality(kept)
        /\ \A j \in 1..Len(new) :
              \E i \in kept :
                  /\ Cardinality({m \in kept : m <= i}) = j
                  /\ new[j] = old[i]

C5_ConnectURL ==
    [][lastOp'.name = "connect" =>
          /\ Len(calls') = 1
          /\ calls'[1].fn = "io"
          /\ calls'[1].a =
                IF Truthy(lastOp'.tok)
                THEN url \o <<IF "?" \in Range(url) THEN "&" ELSE "?">>
                         \o TokenParam \o lastOp'.tok[1]
                ELSE url]_vars

C5_Witness ==
    /\ lastOp.name = "connect"
    /\ lastOp.tok = Some(<<"a">>)
    /\ calls[1].a = <<"h", "?", "x", "&">> \o TokenParam \o <<"a">>

\* C6: setOptions on an adapter that has a handle makes exactly two library
\* calls: disconnect() on the current handle, then one io() whose handle is
\* new and becomes the current one; no other handle is opened or closed.
C6_SetOptionsOneCycle ==
    [][(lastOp'.name = "setOptions" /\ socket # NoSocket) =>
          /\ Len(calls') = 2
          /\ calls'[1].fn = "disconnect" /\ calls'[1].h = socket
          /\ calls'[2].fn = "io" /\ calls'[2].h = socket'
          /\ socket' \notin 1..nOpened
          /\ nOpened' = nOpened + 1
          /\ closed' = closed \cup {socket}]_vars

C6_Witness ==
    /\ lastOp.name = "setOptions"
    /\ Len(calls) = 2
    /\ socket = 2
    /\ closed = {1}

\* C7: setOptions(o) stores, for every key of o, o's value and keeps every
\* other key as it was; nothing else changes the stored options; and every
\* io() call passes the stored options as they are after the step.
C7_OptionsMerge ==
    [][/\ lastOp'.name = "setOptions" =>
            \A k \in Keys :
               IF k \in DOMAIN lastOp'.opt
               THEN k \in DOMAIN options' /\ options'[k] = lastOp'.opt[k]
               ELSE /\ k \in DOMAIN options' <=> k \in DOMAIN options
                    /\ k \in DOMAIN options => options'[k] = options[k]
       /\ lastOp'.name # "setOptions" => options' = options
       /\ DOMAIN options' \subseteq Keys
       /\ \A i \in 1..Len(calls') :
             calls'[i].fn = "io" => calls'[i].b = options']_vars

C7_Witness ==
    /\ lastOp.name = "setOptions"
    /\ lastOp.opt = [k \in {"a"} |-> 2]
    /\ options = [k \in {"a", "b"} |-> 2]
    /\ Len(calls) = 2
    /\ calls[2].b = options

\* C8: a connect-error notification adds one pending timer and opens nothing;
\* a timer runs only once 3000 ms have elapsed, runs once, and opens exactly
\* one connection, with the stored token, which is the last non-empty token
\* passed to connect; nothing else adds or removes a timer; and under
\* fairness of the event loop every scheduled attempt eventually happens.
C8_ReconnectAfterDelay ==
    /\ [][lastOp'.name = "handleConnectError" =>
            /\ Len(timers') = Len(timers) + 1
            /\ calls' = <<>>
            /\ nOpened' = nOpened]_vars
    /\ [][lastOp'.name = "timer" =>
            /\ timers # <<>>
            /\ timers' = Tail(timers)
            /\ lastOp'.val >= ReconnectDelay
            /\ fired' = fired + 1
            /\ Len(calls') = 1
            /\ calls'[1].fn = "io"
            /\ nOpened' = nOpened + 1
            /\ token' = token
            /\ calls'[1].a =
                  IF token = None THEN url
                  ELSE url \o <<IF "?" \in Range(url) THEN "&" ELSE "?">>
                           \o TokenParam \o token[1]]_vars
    /\ [][Len(timers') # Len(timers) =>
            lastOp'.name \in {"handleConnectError", "timer"}]_vars
    /\ [][/\ (lastOp'.name = "connect" /\ Truthy(lastOp'.tok)) =>
                token' = lastOp'.tok
          /\ ~(lastOp'.name = "connect" /\ Truthy(lastOp'.tok)) =>
                token' = token]_vars
    /\ \A k \in 1..MaxHandles :
          (fired + Len(timers) >= k) ~> (fired >= k)

C8_Witness ==
    /\ lastOp.name = "timer"
    /\ lastOp.val >= ReconnectDelay
    /\ token = Some(<<"b">>)
    /\ fired = 2
    /\ timers = <<>>

\* C9: a connect-error notification invokes no registered callback, and a
\* callback of the error sequence is invoked by an error notification only.
C9_ConnectErrorSilent ==
    /\ lastOp.name = "handleConnectError" => invoked = <<>>
    /\ \A i \in 1..Len(invoked) :
          invoked[i].ev = "error" => lastOp.name = "handleError"

C9_Witness ==
    /\ lastOp.name = "handleConnectError"
    /\ eventListeners["error"] # <<>>
    /\ eventListeners["connect"] # <<>>
    /\ eventListeners["disconnect"] # <<>>

\* C10: on and off with a name other than connect, disconnect and error
\* change nothing and raise no error, and the registry always has exactly
\* the keys connect, disconnect and error.
C10_UnknownNameNoOp ==
    /\ [][(lastOp'.name \in {"on", "off"} /\ lastOp'.ev \notin LifecycleNames) =>
            /\ thrown' = "none"
            /\ eventListeners' = eventListeners]_vars
    /\ [](DOMAIN eventListeners = LifecycleNames)

\* Every callback a notification invokes stands in the sequence of its event.
InvokedFromRegistry ==
    \A i \in 1..Len(invoked) :
        /\ lastOp.name \in RegistryNotifications
        /\ invoked[i].cb \in Range(eventListeners[lastOp.ev])

\* C11: disconnect() on an adapter that has a handle calls disconnect() on
\* that handle and leaves the three sequences empty; as callbacks enter a
\* sequence only by on() and notifications invoke only what stands in the
\* sequence, no callback registered before is invoked afterwards; without a
\* handle disconnect() calls nothing and keeps the registry as it is.
C11_DisconnectClears ==
    /\ [][lastOp'.name = "disconnect" =>
            IF socket # NoSocket
            THEN /\ Len(calls') = 1
                 /\ calls'[1].fn = "disconnect" /\ calls'[1].h = socket
                 /\ closed' = closed \cup {socket}
                 /\ \A e \in LifecycleNames : eventListeners'[e] = <<>>
            ELSE /\ calls' = <<>>
                 /\ eventListeners' = eventListeners
                 /\ closed' = closed
                 /\ socket' = socket]_vars
    /\ [][\A e \in LifecycleNames :
            Range(eventListeners'[e]) \ Range(eventListeners[e]) # {} =>
                lastOp'.name = "on" /\ lastOp'.ev = e]_vars
    /\ []InvokedFromRegistry

C11_Witness ==
    /\ lastOp.name = "disconnect"
    /\ lastOp.val = 3
    /\ Len(calls) = 1
    /\ NumListeners(eventListeners) = 0

\* C12: on an adapter on which connect was never called, send, receive and
\* disconnect call nothing in the library, raise nothing and leave the
\* handle, the URL, the token, the options and the registry as they were;
\* setOptions changes the stored options only and opens no connection.
C12_NoHandleNoOp ==
    [][nOpened = 0 =>
          /\ lastOp'.name \in {"send", "receive", "disconnect"} =>
                /\ calls' = <<>>
                /\ thrown' = "none"
                /\ socket' = NoSocket
                /\ url' = url
                /\ token' = token
                /\ options' = options
                /\ eventListeners' = eventListeners
                /\ attached' = attached
          /\ lastOp'.name = "setOptions" =>
                /\ calls' = <<>>
                /\ thrown' = "none"
                /\ nOpened' = 0
                /\ socket' = NoSocket
                /\ url' = url
                /\ token' = token
                /\ eventListeners' = eventListeners
                /\ attached' = attached]_vars

C12_Witness ==
    /\ nOpened = 0
    /\ lastOp.name = "disconnect"
    /\ lastOp.val = 2
    /\ NumListeners(eventListeners) = 2
    /\ options = [k \in {"b"} |-> 2]

\* C13: a scheduled reconnect is never withdrawn: disconnect() leaves the
\* pending timers as they are, a pending timer goes away only by running,
\* one at a time, and each run opens a connection of its own; k pending
\* timers lead to k more runs, whatever is called in between.
C13_ReconnectNotWithdrawn ==
    /\ [][lastOp'.name = "disconnect" => timers' = timers]_vars
    /\ [][Len(timers') < Len(timers) =>
            /\ lastOp'.name = "timer"
            /\ Len(timers') = Len(timers) - 1
            /\ fired' = fired + 1
            /\ nOpened' = nOpened + 1
            /\ socket' = nOpened'
            /\ Len(calls') = 1
            /\ calls'[1].fn = "io"]_vars
    /\ \A n \in 0..MaxHandles, k \in 1..MaxHandles :
          (fired = n /\ Len(timers) = k) ~> (fired >= n + k)

C13_Witness ==
    /\ lastOp.name = "disconnect"
    /\ Len(calls) = 1
    /\ Len(timers) = 2

\* How often the query parameter token= stands in a URL.
TokenParams(u) ==
    Cardinality({i \in 1..Len(u) :
                    /\ i + Len(TokenParam) - 1 <= Len(u)
                    /\ SubSeq(u, i, i + Len(TokenParam) - 1) = TokenParam})

\* C14: every URL passed to the library carries the token parameter at most
\* once, whatever connects, setOptions calls and timer reconnects came before.
C14_TokenAtMostOnce ==
    \A i \in 1..Len(calls) :
        calls[i].fn = "io" => TokenParams(calls[i].a) <= 1

\* C15: a notification of a handle that is no longer the current one invokes
\* no callback and schedules no reconnect.
C15_StaleHandleIgnored ==
    [][(/\ lastOp'.name \in {"handleConnect", "handleDisconnect", "handleError",
                             "handleConnectError"}
        /\ lastOp'.h # socket)
          => invoked' = <<>> /\ timers' = timers]_vars

\* C16: after disconnect() and before the next connect, setOptions makes no
\* library call and opens no connection.
C16_SetOptionsAfterDisconnect ==
    [][(socket # NoSocket /\ socket \in closed /\ lastOp'.name = "setOptions")
          => calls' = <<>> /\ nOpened' = nOpened /\ socket' = socket]_vars

\* C17: receive(name, cb) with a handle attaches cb to the current handle
\* and leaves the registry alone; nothing but receive changes what is
\* attached (disconnect and off remove nothing, a new handle gets nothing);
\* and a message on a handle invokes only what is attached to that handle.
C17_ReceiveBoundToHandle ==
    /\ [][lastOp'.name = "receive" =>
            /\ eventListeners' = eventListeners
            /\ attached' =
                  IF socket # NoSocket
                  THEN attached \o <<[h |-> socket, ev |-> lastOp'.ev,
                                      cb |-> lastOp'.cb]>>
                  ELSE attached]_vars
    /\ [][attached' # attached => lastOp'.name = "receive"]_vars
    /\ [](lastOp.name = "message" =>
            \A i \in 1..Len(invoked) :
               \E j \in 1..Len(attached) :
                  /\ attached[j].h = lastOp.h
                  /\ attached[j].ev = lastOp.ev
                  /\ attached[j].cb = invoked[i].cb)

C17_Witness ==
    /\ lastOp.name = "message"
    /\ lastOp.h = socket
    /\ invoked = <<>>
    /\ closed # {}
    /\ \E j \in 1..Len(attached) :
          attached[j].h # socket /\ attached[j].ev = lastOp.ev

\* C18: the stored token changes only in connect(token) with a non-empty
\* token, to that token; a timer's reconnect leaves it and opens the
\* connection with it.
C18_TokenFrame ==
    [][/\ token' # token =>
            /\ lastOp'.name = "connect"
            /\ Truthy(lastOp'.tok)
            /\ token' = lastOp'.tok
       /\ (lastOp'.name = "connect" /\ Truthy(lastOp'.tok)) => token' = lastOp'.tok
       /\ lastOp'.name = "timer" =>
            /\ lastOp'.tok = token
            /\ Len(calls') = 1
            /\ calls'[1].a =
                  IF token = None THEN url
                  ELSE url \o <<IF "?" \in Range(url) THEN "&" ELSE "?">>
                           \o TokenParam \o token[1]]_vars

C18_Witness ==
    /\ lastOp.name = "connect"
    /\ lastOp.tok = None
    /\ token = Some(<<"a">>)
    /\ nOpened = 2

====
